---- MODULE Spec2Model ----
(***************************************************************************)
(* Gunslinger tournament matching system (Google Apps Script).             *)
(*                                                                         *)
(* The three sheets are the ledgers: players (PlayerRegistry), tables      *)
(* (the in-progress sheet, TableLedger) and history (MatchHistoryLedger).  *)
(* Document properties hold MAX_TABLES and MAINTENANCE_MODE.  Several      *)
(* operators run menu functions concurrently; the only synchronisation is  *)
(* the script lock of LockService: tryLock succeeds for the execution      *)
(* that already holds the lock, and one releaseLock frees it whatever the  *)
(* number of earlier acquisitions.                                         *)
(*                                                                         *)
(* A step of the model is a maximal piece of one execution between two     *)
(* points where another execution can matter: an unlocked sheet or         *)
(* property read, the lock acquisition, the write phase of a run, the      *)
(* release.                                                                *)
(***************************************************************************)
EXTENDS Integers, Sequences, FiniteSets, TLC

\* ------------------------------------------------------------------ bounds
MaxPlayers == 4          \* registerPlayer is not started beyond this many rows
MaxTablesInput == 2      \* configureMaxTables is tried with 1..MaxTablesInput
MaxStat == 2             \* correctMatchResult is not started once a counter reaches it
MaxOps == 6              \* menu functions and triggers started in one behaviour

\* ------------------------------------------------------- program constants
DefaultMaxTables == 50   \* TABLE_CONFIG.MAX_TABLES
MIN_TABLE_NUMBER == 1    \* TABLE_CONFIG.MIN_TABLE_NUMBER
MaxTablesLimit == 200    \* upper end of the range configureMaxTables accepts

Operators == {"opA", "opB"}
NoLock == "free"

WAITING == "Waiting"
IN_PROGRESS == "InProgress"
RESTING == "Resting"
DROPPED == "Dropped"

VARIABLES
  players,        \* player sheet rows: [id, wins, losses, played, status, ts]
  tables,         \* in-progress sheet rows: [num, p1, p2] (p1 = 0: free table)
  history,        \* history sheet rows: [matchId, table, id1, id2, dur]
  maxTablesProp,  \* document property MAX_TABLES (0: not set)
  maintenance,    \* document property MAINTENANCE_MODE = "1"
  lock,           \* holder of the script lock, or NoLock
  now,            \* clock: number of timestamps taken so far
  op,             \* per operator: position and local variables of its execution
  started,        \* number of executions started so far
  wr,             \* the last step's ledger or property write: who wrote, who held the lock
  pending,        \* document property PENDING_MATCH_PLAYERS = "1"
  triggers        \* the registered runDeferredMatchPlayers triggers (one id each)

ledgers == <<players, tables, history>>
vars == <<players, tables, history, maxTablesProp, maintenance, lock, now, op, started, wr,
          pending, triggers>>

\* ---------------------------------------------------------------- helpers
Min(S) == CHOOSE x \in S : \A y \in S : x <= y
Max(S) == CHOOSE x \in S : \A y \in S : x >= y
Max0(a, b) == IF a >= b THEN a ELSE b

Remove(s, i) == SubSeq(s, 1, i - 1) \o SubSeq(s, i + 1, Len(s))

RECURSIVE Flatten(_)
Flatten(ms) == IF ms = <<>> THEN {} ELSE {Head(ms)[1], Head(ms)[2]} \cup Flatten(Tail(ms))

\* Row index of the first row holding player id p (0: not found).
RowOf(ps, p) ==
  LET S == {i \in 1..Len(ps) : ps[i].id = p}
  IN IF S = {} THEN 0 ELSE Min(S)

StatusOf(ps, p) == IF RowOf(ps, p) = 0 THEN "none" ELSE ps[RowOf(ps, p)].status

\* getWaitingPlayers().length
WaitingCount(ps) == Cardinality({i \in 1..Len(ps) : ps[i].status = WAITING})

OccupiedRows(tb) == {i \in 1..Len(tb) : tb[i].p1 # 0}
\* Occupied rows in which player p sits.
SeatsOf(tb, p) == {i \in OccupiedRows(tb) : tb[i].p1 = p \/ tb[i].p2 = p}

\* ------------------------------------------------------------ app.js: lock
\* acquireLock succeeds at once for a free lock and for the holder itself.
CanAcquire(o) == lock \in {NoLock, o}
\* tryLock(LOCK_TIMEOUT) returns false: another execution held the lock for
\* the whole wait.
LockTimeout(o) == lock \notin {NoLock, o}
\* A releaseLock that frees nothing.
ReleasedNot(o, l) == l
\* releaseLock: frees the lock if this execution holds it.
Released(o, l) == IF l = o THEN NoLock ELSE l

\* ----------------------------------------------------- app.js: properties
getMaxTables == IF maxTablesProp # 0 THEN maxTablesProp ELSE DefaultMaxTables

\* ------------------------------------------------ match-domain.js: matching
\* Variant of buildOpponentsMap that records the opponent for ID1 only.
buildOpponentsMapOneWay(h) ==
  LET rows == {i \in 1..Len(h) : h[i].id1 # 0 /\ h[i].id2 # 0}
      ids == {h[i].id1 : i \in rows} \cup {h[i].id2 : i \in rows}
  IN [p \in ids |-> {h[i].id2 : i \in {j \in rows : h[j].id1 = p}}]

\* Variant of buildOpponentsMap that reads no history row.
buildOpponentsMapNoRows(h) == [p \in {} |-> {}]
\* Map player id -> set of ids met in a history row (ID1/ID2 both present).
buildOpponentsMap(h) ==
  LET rows == {i \in 1..Len(h) : h[i].id1 # 0 /\ h[i].id2 # 0}
      ids == {h[i].id1 : i \in rows} \cup {h[i].id2 : i \in rows}
  IN [p \in ids |->
        {h[i].id2 : i \in {j \in rows : h[j].id1 = p}}
          \cup {h[i].id1 : i \in {j \in rows : h[j].id2 = p}}]

\* opponentsMap.get(p) || new Set()
OpponentsOf(map, p) == IF p \in DOMAIN map THEN map[p] ELSE {}

\* Variant of the comparator with the newer lastMatchTimestamp first.
SortsBeforeNewestFirst(a, b) ==
  \/ a.wins > b.wins
  \/ a.wins = b.wins /\ a.ts > b.ts

\* The sort comparator is negative: a goes before b.  More wins first, then
\* the older lastMatchTimestamp (a missing timestamp counts as time 0).
SortsBefore(a, b) ==
  \/ a.wins > b.wins
  \/ a.wins = b.wins /\ a.ts < b.ts

\* Array.prototype.sort is stable: among rows none of which goes before the
\* other, sheet order is kept.
RECURSIVE StableSort(_)
StableSort(rows) ==
  IF rows = <<>> THEN <<>>
  ELSE LET n == Len(rows)
           minimal == {i \in 1..n : \A j \in 1..n : ~SortsBefore(rows[j], rows[i])}
           i == Min(minimal)
       IN <<rows[i]>> \o StableSort(Remove(rows, i))

\* Rows with status Waiting, sorted; the result is the sequence of their ids.
getAndSortWaitingPlayers(ps) ==
  LET waiting == SelectSeq(ps, LAMBDA r : r.status = WAITING)
      sorted == StableSort(waiting)
  IN [i \in 1..Len(sorted) |-> sorted[i].id]

\* Variant of findMatchPairs that stops after the first pair.
findMatchPairsFirstPairOnly(available, opponentsMap) ==
  IF Len(available) < 2
  THEN [matches |-> <<>>, skippedPlayers |-> available]
  ELSE LET p1 == Head(available)
           rest == Tail(available)
           free == {i \in 1..Len(rest) : rest[i] \notin OpponentsOf(opponentsMap, p1)}
       IN IF free # {}
          THEN [matches |-> <<<<p1, rest[Min(free)]>>>>,
                skippedPlayers |-> Remove(rest, Min(free))]
          ELSE [matches |-> <<>>, skippedPlayers |-> available]

\* Variant of findMatchPairs in which the head takes the last later id that
\* is not one of its past opponents.
RECURSIVE findMatchPairsLastPartner(_, _)
findMatchPairsLastPartner(available, opponentsMap) ==
  IF Len(available) < 2
  THEN [matches |-> <<>>, skippedPlayers |-> available]
  ELSE LET p1 == Head(available)
           rest == Tail(available)
           free == {i \in 1..Len(rest) : rest[i] \notin OpponentsOf(opponentsMap, p1)}
       IN IF free # {}
          THEN LET p2Index == Max(free)
                   r == findMatchPairsLastPartner(Remove(rest, p2Index), opponentsMap)
               IN [matches |-> <<<<p1, rest[p2Index]>>>> \o r.matches,
                   skippedPlayers |-> r.skippedPlayers]
          ELSE LET r == findMatchPairsLastPartner(rest, opponentsMap)
               IN [matches |-> r.matches,
                   skippedPlayers |-> <<p1>> \o r.skippedPlayers]

\* Greedy pairing over the sorted ids: the head takes the first later id that
\* is not one of its past opponents; a head without partner is set aside.
RECURSIVE findMatchPairs(_, _)
findMatchPairs(available, opponentsMap) ==
  IF Len(available) < 2
  THEN [matches |-> <<>>, skippedPlayers |-> available]
  ELSE LET p1 == Head(available)
           rest == Tail(available)
           free == {i \in 1..Len(rest) : rest[i] \notin OpponentsOf(opponentsMap, p1)}
       IN IF free # {}
          THEN LET p2Index == Min(free)
                   r == findMatchPairs(Remove(rest, p2Index), opponentsMap)
               IN [matches |-> <<<<p1, rest[p2Index]>>>> \o r.matches,
                   skippedPlayers |-> r.skippedPlayers]
          ELSE LET r == findMatchPairs(rest, opponentsMap)
               IN [matches |-> r.matches,
                   skippedPlayers |-> <<p1>> \o r.skippedPlayers]

\* availableTables: rows with a table number and no ID1, in sheet order;
\* usedTables: the numbers of the occupied rows.
getTableStatus(tb) ==
  LET freeRows == {i \in 1..Len(tb) : tb[i].num # 0 /\ tb[i].p1 = 0}
      idx == [i \in 1..Len(tb) |-> i]
      freeSeq == SelectSeq(idx, LAMBDA i : i \in freeRows)
  IN [availableTables |-> [k \in 1..Len(freeSeq) |->
                             [row |-> freeSeq[k], tableNumber |-> tb[freeSeq[k]].num]],
      usedTables |-> {tb[i].num : i \in {j \in 1..Len(tb) : tb[j].num # 0 /\ tb[j].p1 # 0}}]

\* -------------------------------------------- test-utils.js: table helpers
validateTableNumber(t) == t >= MIN_TABLE_NUMBER /\ t <= getMaxTables

\* Largest table number present in the in-progress sheet (0: none).
getMaxUsedTableNumber(tb) ==
  LET nums == {tb[i].num : i \in 1..Len(tb)} \ {0}
  IN IF nums = {} THEN 0 ELSE Max(nums)

\* Lowest number in [MIN_TABLE_NUMBER, maxTables] absent from the sheet;
\* 0 stands for the thrown error "no table number available".
getNextAvailableTableNumber(tb) ==
  LET usedNumbers == {tb[i].num : i \in 1..Len(tb)} \ {0}
      cand == (MIN_TABLE_NUMBER..getMaxTables) \ usedNumbers
  IN IF cand = {} THEN 0 ELSE Min(cand)

\* Table of the latest history row that names p as ID1 (the winner) and has
\* a duration (0: none).
getLastTableNumber(h, p) ==
  LET rows == {i \in 1..Len(h) : h[i].id1 = p /\ h[i].dur}
  IN IF rows = {} THEN 0 ELSE h[Max(rows)].table

\* ------------------------------------------- match-domain.js: planMatches
\* Variant of planMatches that never counts a table still to be created.
planMatchesExistingOnly(ps, tb, h) ==
  LET waitingPlayers == getAndSortWaitingPlayers(ps)
      found == findMatchPairs(waitingPlayers, buildOpponentsMap(h))
      matches == found.matches
      st == getTableStatus(tb)
      totalExistingTables == Len(st.availableTables) + Cardinality(st.usedTables)
      maxNewTables == 0
      totalAvailableSlots == Len(st.availableTables) + maxNewTables
      cut == IF totalAvailableSlots < Len(matches) THEN totalAvailableSlots ELSE Len(matches)
  IN IF Len(waitingPlayers) < 2 \/ matches = <<>>
     THEN [ok |-> FALSE, actualMatches |-> <<>>, skippedMatches |-> <<>>,
           availableTables |-> <<>>, usedTables |-> {}, nextNewRow |-> 0]
     ELSE [ok |-> TRUE,
           actualMatches |-> SubSeq(matches, 1, cut),
           skippedMatches |-> SubSeq(matches, cut + 1, Len(matches)),
           availableTables |-> st.availableTables,
           usedTables |-> st.usedTables,
           nextNewRow |-> Len(tb) + 1]

\* Variant of planMatches that keeps the last pairs formed, not the first.
planMatchesLastPairs(ps, tb, h) ==
  LET waitingPlayers == getAndSortWaitingPlayers(ps)
      found == findMatchPairs(waitingPlayers, buildOpponentsMap(h))
      matches == found.matches
      st == getTableStatus(tb)
      totalExistingTables == Len(st.availableTables) + Cardinality(st.usedTables)
      maxNewTables == Max0(0, getMaxTables - totalExistingTables)
      totalAvailableSlots == Len(st.availableTables) + maxNewTables
      cut == IF totalAvailableSlots < Len(matches) THEN totalAvailableSlots ELSE Len(matches)
  IN IF Len(waitingPlayers) < 2 \/ matches = <<>>
     THEN [ok |-> FALSE, actualMatches |-> <<>>, skippedMatches |-> <<>>,
           availableTables |-> <<>>, usedTables |-> {}, nextNewRow |-> 0]
     ELSE [ok |-> TRUE,
           actualMatches |-> SubSeq(matches, Len(matches) - cut + 1, Len(matches)),
           skippedMatches |-> SubSeq(matches, 1, Len(matches) - cut),
           availableTables |-> st.availableTables,
           usedTables |-> st.usedTables,
           nextNewRow |-> Len(tb) + 1]

\* The pairs found, cut to the number of free and creatable tables.
planMatches(ps, tb, h) ==
  LET waitingPlayers == getAndSortWaitingPlayers(ps)
      found == findMatchPairs(waitingPlayers, buildOpponentsMap(h))
      matches == found.matches
      st == getTableStatus(tb)
      totalExistingTables == Len(st.availableTables) + Cardinality(st.usedTables)
      maxNewTables == Max0(0, getMaxTables - totalExistingTables)
      totalAvailableSlots == Len(st.availableTables) + maxNewTables
      cut == IF totalAvailableSlots < Len(matches) THEN totalAvailableSlots ELSE Len(matches)
  IN IF Len(waitingPlayers) < 2 \/ matches = <<>>
     THEN [ok |-> FALSE, actualMatches |-> <<>>, skippedMatches |-> <<>>,
           availableTables |-> <<>>, usedTables |-> {}, nextNewRow |-> 0]
     ELSE [ok |-> TRUE,
           actualMatches |-> SubSeq(matches, 1, cut),
           skippedMatches |-> SubSeq(matches, cut + 1, Len(matches)),
           availableTables |-> st.availableTables,
           usedTables |-> st.usedTables,
           nextNewRow |-> Len(tb) + 1]

\* Write row r of the in-progress sheet (a row past the end is appended).
SetRow(tb, r, rec) ==
  IF r <= Len(tb) THEN [tb EXCEPT ![r] = rec] ELSE Append(tb, rec)

\* The allocation loop of writeMatchResults over the remaining matches.
\* ok = FALSE: getNextAvailableTableNumber threw; the rows written before
\* stay written.
RECURSIVE AllocateTables(_, _, _, _, _, _)
AllocateTables(ms, tb, availableTables, usedTables, nextNewRow, h) ==
  IF ms = <<>> THEN [tables |-> tb, ok |-> TRUE]
  ELSE
    LET p1Id == Head(ms)[1]
        p2Id == Head(ms)[2]
        lastTableP1 == getLastTableNumber(h, p1Id)
        lastTableP2 == getLastTableNumber(h, p2Id)
        IndexOf(t) == {k \in 1..Len(availableTables) : availableTables[k].tableNumber = t}
        isTableAvailableForReuse(t) ==
          /\ t # 0
          /\ validateTableNumber(t)
          /\ t \notin usedTables
          /\ IndexOf(t) # {}
        reuse == IF isTableAvailableForReuse(lastTableP1) THEN lastTableP1
                 ELSE IF isTableAvailableForReuse(lastTableP2) THEN lastTableP2
                 ELSE 0
    IN IF reuse # 0
       THEN LET k == Min(IndexOf(reuse))
                t == availableTables[k]
            IN AllocateTables(Tail(ms),
                 SetRow(tb, t.row, [num |-> tb[t.row].num, p1 |-> p1Id, p2 |-> p2Id]),
                 Remove(availableTables, k), usedTables \cup {t.tableNumber},
                 nextNewRow, h)
       ELSE IF availableTables # <<>>
       THEN LET t == Head(availableTables)
            IN AllocateTables(Tail(ms),
                 SetRow(tb, t.row, [num |-> tb[t.row].num, p1 |-> p1Id, p2 |-> p2Id]),
                 Tail(availableTables), usedTables \cup {t.tableNumber},
                 nextNewRow, h)
       ELSE LET newTableNumber == getNextAvailableTableNumber(tb)
            IN IF newTableNumber = 0
               THEN [tables |-> tb, ok |-> FALSE]
               ELSE AllocateTables(Tail(ms),
                      SetRow(tb, nextNewRow, [num |-> newTableNumber, p1 |-> p1Id, p2 |-> p2Id]),
                      availableTables, usedTables \cup {newTableNumber},
                      nextNewRow + 1, h)

\* writeMatchResults: first every player of a planned match is set to
\* InProgress, then the tables are allocated match by match.
writeMatchResults(plan, ps, tb, h) ==
  LET ids == Flatten(plan.actualMatches)
      alloc == AllocateTables(plan.actualMatches, tb, plan.availableTables,
                              plan.usedTables, plan.nextNewRow, h)
  IN [players |-> [i \in 1..Len(ps) |->
                     IF ps[i].id \in ids THEN [ps[i] EXCEPT !.status = IN_PROGRESS]
                     ELSE ps[i]],
      tables |-> alloc.tables,
      ok |-> alloc.ok]

\* ---------------------------------- player-domain.js: updatePlayerState
\* Variant of the clearing of a match row that clears nothing.
clearMatchRowNot(tb, matchRow) == tb

\* Step 5 of updatePlayerState: the cells from ID1 to the match time of the
\* row are cleared, the table number stays.
clearMatchRow(tb, matchRow) ==
  [tb EXCEPT ![matchRow] = [num |-> @.num, p1 |-> 0, p2 |-> 0]]

\* Variant of updatePlayerMatchStats that leaves the match count alone.
updatePlayerMatchStatsNoTotal(ps, playerId, isWinner, timestamp) ==
  [i \in 1..Len(ps) |->
     IF i = RowOf(ps, playerId)
     THEN [ps[i] EXCEPT !.wins = @ + (IF isWinner THEN 1 ELSE 0),
                        !.losses = @ + (IF isWinner THEN 0 ELSE 1),
                        !.ts = timestamp]
     ELSE ps[i]]

\* updatePlayerMatchStats: the first row holding playerId gets wins or
\* losses, and the match count, raised by one and the timestamp set.
updatePlayerMatchStats(ps, playerId, isWinner, timestamp) ==
  [i \in 1..Len(ps) |->
     IF i = RowOf(ps, playerId)
     THEN [ps[i] EXCEPT !.wins = @ + (IF isWinner THEN 1 ELSE 0),
                        !.losses = @ + (IF isWinner THEN 0 ELSE 1),
                        !.played = @ + 1,
                        !.ts = timestamp]
     ELSE ps[i]]

\* Variant of the target check that lets a Dropped target through.
rejectsTargetUnknownOnly(a, ps) == RowOf(ps, a.target) = 0

\* Step 1 of updatePlayerState: the target is not in the player sheet, or its
\* status is Dropped.
rejectsTarget(a, ps) ==
  \/ RowOf(ps, a.target) = 0
  \/ StatusOf(ps, a.target) = DROPPED

\* Variant of updatePlayerState that writes the new status before it looks at
\* the current one: the rejection of a Dropped target then leaves the status
\* cell changed.
updatePlayerStateWritesFirst(a, ps, tb, h, t) ==
  LET row == RowOf(ps, a.target)
      currentStatus == IF row = 0 THEN "none" ELSE ps[row].status
      inProgress == currentStatus = IN_PROGRESS
      seatRows == {i \in 1..Len(tb) : tb[i].p1 = a.target \/ tb[i].p2 = a.target}
      matchRow == IF inProgress /\ seatRows # {} THEN Min(seatRows) ELSE 0
      opponentId == IF matchRow = 0 THEN 0
                    ELSE IF tb[matchRow].p1 = a.target THEN tb[matchRow].p2
                    ELSE tb[matchRow].p1
      opponentDropped == opponentId # 0 /\ StatusOf(ps, opponentId) = DROPPED
      fail == [success |-> FALSE, players |-> ps, tables |-> tb, history |-> h,
               stamped |-> FALSE, opponentId |-> opponentId]
      winner == IF a.isTargetWinner THEN a.target ELSE opponentId
      loser == IF a.isTargetWinner THEN opponentId ELSE a.target
      h2 == IF a.recordResult
            THEN Append(h, [matchId |-> Len(h) + 1, table |-> tb[matchRow].num,
                            id1 |-> winner, id2 |-> loser, dur |-> TRUE])
            ELSE h
      \* updatePlayerMatchStats(winner, true), updatePlayerMatchStats(loser, false)
      ps2 == IF a.recordResult
             THEN updatePlayerMatchStats(updatePlayerMatchStats(ps, winner, TRUE, t),
                                         loser, FALSE, t)
             ELSE ps
      tb2 == IF inProgress /\ matchRow # 0
             THEN clearMatchRow(tb, matchRow)
             ELSE tb
      ps3 == [i \in 1..Len(ps2) |->
                IF ps2[i].id = a.target THEN [ps2[i] EXCEPT !.status = a.newStatus]
                ELSE IF ps2[i].id = opponentId
                THEN [ps2[i] EXCEPT !.status = a.opponentNewStatus]
                ELSE ps2[i]]
  IN IF row = 0 THEN fail
     ELSE IF currentStatus = DROPPED THEN [fail EXCEPT !.players = ps3]
     ELSE IF inProgress /\ opponentId = 0 THEN fail
     ELSE IF inProgress /\ opponentDropped /\ a.opponentNewStatus # DROPPED THEN fail
     ELSE IF a.recordResult /\ matchRow = 0 THEN fail
     ELSE [success |-> TRUE, players |-> ps3, tables |-> tb2, history |-> h2,
           stamped |-> a.recordResult, opponentId |-> opponentId]

\* Variant of updatePlayerState that records a result for a target that sits
\* at no table, with table number 0 and no opponent.
updatePlayerStateRecordsUnseated(a, ps, tb, h, t) ==
  LET row == RowOf(ps, a.target)
      currentStatus == IF row = 0 THEN "none" ELSE ps[row].status
      inProgress == currentStatus = IN_PROGRESS
      seatRows == {i \in 1..Len(tb) : tb[i].p1 = a.target \/ tb[i].p2 = a.target}
      matchRow == IF inProgress /\ seatRows # {} THEN Min(seatRows) ELSE 0
      opponentId == IF matchRow = 0 THEN 0
                    ELSE IF tb[matchRow].p1 = a.target THEN tb[matchRow].p2
                    ELSE tb[matchRow].p1
      opponentDropped == opponentId # 0 /\ StatusOf(ps, opponentId) = DROPPED
      fail == [success |-> FALSE, players |-> ps, tables |-> tb, history |-> h,
               stamped |-> FALSE, opponentId |-> opponentId]
      winner == IF a.isTargetWinner THEN a.target ELSE opponentId
      loser == IF a.isTargetWinner THEN opponentId ELSE a.target
      h2 == IF a.recordResult
            THEN Append(h, [matchId |-> Len(h) + 1,
                            table |-> IF matchRow = 0 THEN 0 ELSE tb[matchRow].num,
                            id1 |-> winner, id2 |-> loser, dur |-> TRUE])
            ELSE h
      \* updatePlayerMatchStats(winner, true), updatePlayerMatchStats(loser, false)
      ps2 == IF a.recordResult
             THEN updatePlayerMatchStats(updatePlayerMatchStats(ps, winner, TRUE, t),
                                         loser, FALSE, t)
             ELSE ps
      tb2 == IF inProgress /\ matchRow # 0
             THEN clearMatchRow(tb, matchRow)
             ELSE tb
      ps3 == [i \in 1..Len(ps2) |->
                IF ps2[i].id = a.target THEN [ps2[i] EXCEPT !.status = a.newStatus]
                ELSE IF ps2[i].id = opponentId
                THEN [ps2[i] EXCEPT !.status = a.opponentNewStatus]
                ELSE ps2[i]]
  IN IF rejectsTarget(a, ps) THEN fail
     ELSE IF inProgress /\ opponentId = 0 THEN fail
     ELSE IF inProgress /\ opponentDropped /\ a.opponentNewStatus # DROPPED THEN fail
     ELSE [success |-> TRUE, players |-> ps3, tables |-> tb2, history |-> h2,
           stamped |-> a.recordResult, opponentId |-> opponentId]

\* The locked part of updatePlayerState on sheets ps, tb, h at time t.
\* success = FALSE covers the early returns (unknown target, Dropped target,
\* InProgress target without opponent row, Dropped opponent) and the error
\* thrown by getRange(matchRow, ...) when a result is to be recorded for a
\* target that sits at no table (matchRow = -1); all of them come before the
\* first write.
updatePlayerState(a, ps, tb, h, t) ==
  LET row == RowOf(ps, a.target)
      currentStatus == IF row = 0 THEN "none" ELSE ps[row].status
      inProgress == currentStatus = IN_PROGRESS
      seatRows == {i \in 1..Len(tb) : tb[i].p1 = a.target \/ tb[i].p2 = a.target}
      matchRow == IF inProgress /\ seatRows # {} THEN Min(seatRows) ELSE 0
      opponentId == IF matchRow = 0 THEN 0
                    ELSE IF tb[matchRow].p1 = a.target THEN tb[matchRow].p2
                    ELSE tb[matchRow].p1
      opponentDropped == opponentId # 0 /\ StatusOf(ps, opponentId) = DROPPED
      fail == [success |-> FALSE, players |-> ps, tables |-> tb, history |-> h,
               stamped |-> FALSE, opponentId |-> opponentId]
      winner == IF a.isTargetWinner THEN a.target ELSE opponentId
      loser == IF a.isTargetWinner THEN opponentId ELSE a.target
      h2 == IF a.recordResult
            THEN Append(h, [matchId |-> Len(h) + 1, table |-> tb[matchRow].num,
                            id1 |-> winner, id2 |-> loser, dur |-> TRUE])
            ELSE h
      \* updatePlayerMatchStats(winner, true), updatePlayerMatchStats(loser, false)
      ps2 == IF a.recordResult
             THEN updatePlayerMatchStats(updatePlayerMatchStats(ps, winner, TRUE, t),
                                         loser, FALSE, t)
             ELSE ps
      tb2 == IF inProgress /\ matchRow # 0
             THEN clearMatchRow(tb, matchRow)
             ELSE tb
      ps3 == [i \in 1..Len(ps2) |->
                IF ps2[i].id = a.target THEN [ps2[i] EXCEPT !.status = a.newStatus]
                ELSE IF ps2[i].id = opponentId
                THEN [ps2[i] EXCEPT !.status = a.opponentNewStatus]
                ELSE ps2[i]]
  IN IF rejectsTarget(a, ps) THEN fail
     ELSE IF inProgress /\ opponentId = 0 THEN fail
     ELSE IF inProgress /\ opponentDropped /\ a.opponentNewStatus # DROPPED THEN fail
     ELSE IF a.recordResult /\ matchRow = 0 THEN fail
     ELSE [success |-> TRUE, players |-> ps3, tables |-> tb2, history |-> h2,
           stamped |-> a.recordResult, opponentId |-> opponentId]

\* ------------------------------------------------------ execution records
NoArgs == [target |-> 0, newStatus |-> "none", opponentNewStatus |-> "none",
           recordResult |-> FALSE, isTargetWinner |-> FALSE]
NoPlan == [ok |-> FALSE, actualMatches |-> <<>>, skippedMatches |-> <<>>,
           availableTables |-> <<>>, usedTables |-> {}, nextNewRow |-> 0]
NoEam == [active |-> <<>>, i |-> 0, maxNum |-> 0, owned |-> FALSE]
NoCmr == [row |-> 0, winner |-> 0, loser |-> 0]
\* Locals of deferMatchPlayers / runDeferredMatchPlayers: the property value
\* and the triggers read, the number of matchPlayers calls made, and two
\* observations: the number of this execution, and whether the other
\* operators were at rest when it began.
NoRun == [pending |-> FALSE, seen |-> {}, calls |-> 0, at |-> 0, alone |-> FALSE]

\* An operator with no execution under way.
IdleRec == [pc |-> "idle", stk |-> <<>>, args |-> NoArgs, upsRes |-> "none",
            mpRet |-> -1, plan |-> NoPlan, tgt |-> 0, cfg |-> 0,
            cmr |-> NoCmr, eam |-> NoEam, run |-> NoRun, lookup |-> 0]

\* A menu function begins; `back` is where its callee returns to.
Begin(label, back) == [IdleRec EXCEPT !.pc = label, !.stk = <<back>>]

\* Call a function: continue at `label`, come back at `back`.
Call(r, label, back) == [r EXCEPT !.pc = label, !.stk = <<back>> \o r.stk]

StateArgs(p, st, opp, rec, win) ==
  [target |-> p, newStatus |-> st, opponentNewStatus |-> opp,
   recordResult |-> rec, isTargetWinner |-> win]

\* app.js endAllActiveMatches, lines 273-295: both players of every active
\* row are sent back to Waiting through updatePlayerState.
ForceArgs(p) == StateArgs(p, WAITING, WAITING, FALSE, FALSE)

\* The error dialog (ui.alert) an execution ends in, with the request it is
\* about; it stays up until the operator dismisses it.
Alert(res, a) == [IdleRec EXCEPT !.pc = "alert", !.upsRes = res, !.args = a]

\* Where a returning function lands.
\*  - The loop of endAllActiveMatches has no step of its own between two
\*    calls, so a return into it goes straight on to the next call, or to the
\*    writes after the loop.
\*  - changePlayerStatus / recordResult ("ups_top") show an alert when
\*    updatePlayerState reported success=false and end silently otherwise.
\*  - A matchPlayers execution of its own ("mp_top") ends with its return
\*    value.
Return(r) ==
  LET back == [r EXCEPT !.pc = Head(r.stk), !.stk = Tail(r.stk)]
  IN IF back.pc = "eam_after1"
     THEN Call([back EXCEPT !.args = ForceArgs(back.eam.active[back.eam.i].id2)],
               "ups_body", "eam_after2")
     ELSE IF back.pc = "eam_after2"
     THEN IF back.eam.i < Len(back.eam.active)
          THEN Call([back EXCEPT !.eam.i = @ + 1,
                                 !.args = ForceArgs(back.eam.active[back.eam.i + 1].id1)],
                    "ups_body", "eam_after1")
          ELSE [back EXCEPT !.pc = "eam_tail", !.args = NoArgs]
     ELSE IF back.pc = "ups_top"
     THEN IF back.upsRes = "ok" THEN IdleRec ELSE Alert(back.upsRes, back.args)
     ELSE IF back.pc = "mp_top"
     THEN [IdleRec EXCEPT !.pc = "mp_done", !.mpRet = back.mpRet]
     ELSE IF back.pc = "idle"
     THEN IdleRec
     ELSE back

Set(o, r) == op' = [op EXCEPT ![o] = r]

\* The step writes nothing to a sheet or to the MAX_TABLES property.
NoWrite == [by |-> "nobody", holder |-> NoLock]
\* The step of operator o writes while `holder` has the script lock.
WriteBy(o, holder) == [by |-> o, holder |-> holder]

\* An idle operator starts an execution.
Start(o) ==
  /\ op[o].pc = "idle"
  /\ started < MaxOps
  /\ started' = started + 1

Init ==
  /\ players = <<>>
  /\ tables = <<>>
  /\ history = <<>>
  /\ maxTablesProp = 0
  /\ maintenance = FALSE
  /\ lock = NoLock
  /\ now = 0
  /\ op = [o \in Operators |-> IdleRec]
  /\ started = 0
  /\ wr = NoWrite
  /\ pending = FALSE
  /\ triggers = {}

\* The operator closes the error dialog, or the finished matchPlayers
\* execution is gone.
Dismiss(o) ==
  /\ op[o].pc \in {"alert", "mp_done", "run_done"}
  /\ Set(o, IdleRec)
  /\ UNCHANGED <<players, tables, history, maxTablesProp, maintenance, lock, now>>
  /\ UNCHANGED started
  /\ wr' = NoWrite
  /\ UNCHANGED <<pending, triggers>>

\* =================================================================
\* matchPlayers (match-domain.js)
\* =================================================================
\* Variant of the entry of matchPlayers without the MAINTENANCE_MODE check.
MpCheckFromIgnoringFlag(o, r) ==
  /\ Set(o, [r EXCEPT !.pc = "mp_plan"])
  /\ UNCHANGED <<players, tables, history, maxTablesProp, maintenance, lock, now>>
  /\ wr' = NoWrite
  /\ UNCHANGED <<pending, triggers>>

\* The MAINTENANCE_MODE check of execution record r, made before the lock is
\* asked for: with the flag set matchPlayers returns 0 at once.
MpCheckFrom(o, r) ==
  /\ IF maintenance
     THEN Set(o, Return([r EXCEPT !.mpRet = 0]))
     ELSE Set(o, [r EXCEPT !.pc = "mp_plan"])
  /\ UNCHANGED <<players, tables, history, maxTablesProp, maintenance, lock, now>>
  /\ wr' = NoWrite
  /\ UNCHANGED <<pending, triggers>>

\* matchPlayers run on its own (time trigger, script editor).
MatchPlayers(o) ==
  /\ Start(o)
  /\ MpCheckFrom(o, Begin("mp_check", "mp_top"))

\* matchPlayers called by updatePlayerState, registerPlayer or
\* returnPlayerFromResting.
MpCheck(o) ==
  /\ op[o].pc = "mp_check"
  /\ MpCheckFrom(o, op[o])
  /\ UNCHANGED started

\* acquireLock throws: caught, 0 is returned, nothing is released.
MpTimeout(o) ==
  /\ op[o].pc = "mp_plan"
  /\ LockTimeout(o)
  /\ Set(o, Return([op[o] EXCEPT !.mpRet = 0]))
  /\ UNCHANGED <<players, tables, history, maxTablesProp, maintenance, lock, now>>
  /\ UNCHANGED started
  /\ wr' = NoWrite
  /\ UNCHANGED <<pending, triggers>>

\* acquireLock, loadMatchContext, planMatches.  Without a plan the function
\* returns 0 through the finally block, which releases the lock.
MpPlan(o) ==
  /\ op[o].pc = "mp_plan"
  /\ CanAcquire(o)
  /\ LET plan == planMatches(players, tables, history)
     IN IF plan.ok
        THEN /\ lock' = o
             /\ Set(o, [op[o] EXCEPT !.pc = "mp_write", !.plan = plan])
        ELSE /\ lock' = NoLock
             /\ Set(o, Return([op[o] EXCEPT !.mpRet = 0]))
  /\ UNCHANGED <<players, tables, history, maxTablesProp, maintenance, now>>
  /\ UNCHANGED started
  /\ wr' = NoWrite
  /\ UNCHANGED <<pending, triggers>>

\* applyMatchPlan: writeMatchResults, then updateAllMatchTimes (which takes
\* and releases the script lock), then the finally block.  An error thrown
\* by the table allocation is caught: 0 is returned.
MpWrite(o) ==
  /\ op[o].pc = "mp_write"
  /\ LET w == writeMatchResults(op[o].plan, players, tables, history)
     IN /\ players' = w.players
        /\ tables' = w.tables
        /\ Set(o, Return([op[o] EXCEPT
                 !.mpRet = IF w.ok THEN Len(op[o].plan.actualMatches) ELSE 0]))
  /\ lock' = Released(o, lock)
  /\ UNCHANGED <<history, maxTablesProp, maintenance, now>>
  /\ UNCHANGED started
  /\ wr' = WriteBy(o, lock)
  /\ UNCHANGED <<pending, triggers>>

\* =================================================================
\* registerPlayer (player-domain.js)
\* =================================================================
\* acquireLock throws: the error is shown.
RegTimeout(o) ==
  /\ Start(o)
  /\ Len(players) < MaxPlayers
  /\ LockTimeout(o)
  /\ Set(o, Alert("contention", NoArgs))
  /\ UNCHANGED <<players, tables, history, maxTablesProp, maintenance, lock, now>>
  /\ wr' = NoWrite
  /\ UNCHANGED <<pending, triggers>>

\* Variant of registerPlayer that gives the largest existing id again.
RegisterPlayerSameId(o) ==
  /\ Start(o)
  /\ Len(players) < MaxPlayers
  /\ CanAcquire(o)
  /\ LET maxIdNumber == IF players = <<>> THEN 0
                        ELSE Max({players[i].id : i \in 1..Len(players)})
         newRow == [id |-> IF maxIdNumber = 0 THEN 1 ELSE maxIdNumber, wins |-> 0, losses |-> 0, played |-> 0,
                    status |-> WAITING, ts |-> now + 1]
     IN /\ players' = Append(players, newRow)
        /\ now' = now + 1
        /\ IF WaitingCount(players') >= 2
           THEN /\ lock' = o
                /\ Set(o, Begin("mp_check", "reg_release"))
           ELSE /\ lock' = NoLock
                /\ Set(o, IdleRec)
  /\ UNCHANGED <<tables, history, maxTablesProp, maintenance>>
  /\ wr' = WriteBy(o, o)
  /\ UNCHANGED <<pending, triggers>>

\* Under the lock: the new id is the largest id number plus one; the row is
\* appended Waiting with zero counters; with two or more Waiting players
\* matchPlayers is called.
RegisterPlayer(o) ==
  /\ Start(o)
  /\ Len(players) < MaxPlayers
  /\ CanAcquire(o)
  /\ LET maxIdNumber == IF players = <<>> THEN 0
                        ELSE Max({players[i].id : i \in 1..Len(players)})
         newRow == [id |-> maxIdNumber + 1, wins |-> 0, losses |-> 0, played |-> 0,
                    status |-> WAITING, ts |-> now + 1]
     IN /\ players' = Append(players, newRow)
        /\ now' = now + 1
        /\ IF WaitingCount(players') >= 2
           THEN /\ lock' = o
                /\ Set(o, Begin("mp_check", "reg_release"))
           ELSE /\ lock' = NoLock
                /\ Set(o, IdleRec)
  /\ UNCHANGED <<tables, history, maxTablesProp, maintenance>>
  /\ wr' = WriteBy(o, o)
  /\ UNCHANGED <<pending, triggers>>

RegRelease(o) ==
  /\ op[o].pc = "reg_release"
  /\ lock' = Released(o, lock)
  /\ Set(o, IdleRec)
  /\ UNCHANGED <<players, tables, history, maxTablesProp, maintenance, now>>
  /\ UNCHANGED started
  /\ wr' = NoWrite
  /\ UNCHANGED <<pending, triggers>>

\* =================================================================
\* updatePlayerState (player-domain.js) and its callers
\* =================================================================
\* The first acquireLock of execution record r throws: success=false with
\* the contention message.
UpsTimeoutFrom(o, r) ==
  /\ LockTimeout(o)
  /\ Set(o, Return([r EXCEPT !.upsRes = "contention"]))
  /\ UNCHANGED <<players, tables, history, maxTablesProp, maintenance, lock, now>>
  /\ wr' = NoWrite
  /\ UNCHANGED <<pending, triggers>>

\* Both acquireLock calls succeed; steps 1-6 run; the finally block releases
\* unless step 7 calls matchPlayers first.
UpsBodyFrom(o, r) ==
  /\ CanAcquire(o)
  /\ LET u == updatePlayerState(r.args, players, tables, history, now + 1)
     IN /\ players' = u.players
        /\ tables' = u.tables
        /\ history' = u.history
        /\ now' = IF u.stamped THEN now + 1 ELSE now
        /\ wr' = IF u.success THEN WriteBy(o, o) ELSE NoWrite
        /\ UNCHANGED <<pending, triggers>>
        /\ IF ~u.success
           THEN /\ lock' = NoLock
                /\ Set(o, Return([r EXCEPT !.upsRes = "fail"]))
           ELSE IF WaitingCount(u.players) >= 2
           THEN /\ lock' = o
                /\ Set(o, Call([r EXCEPT !.args = NoArgs, !.lookup = 0],
                             "mp_check", "ups_release"))
           ELSE /\ lock' = NoLock
                /\ Set(o, Return([r EXCEPT !.upsRes = "ok", !.args = NoArgs,
                                           !.lookup = 0]))
  /\ UNCHANGED <<maxTablesProp, maintenance>>

\* dropoutPlayer / restPlayer through changePlayerStatus (test-utils.js).
ChangeStatusArgs == {StateArgs(p, st, WAITING, FALSE, FALSE) :
                       p \in 1..MaxPlayers, st \in {DROPPED, RESTING}}

ChangePlayerStatus(o) ==
  /\ Start(o)
  /\ \E a \in ChangeStatusArgs :
       UpsBodyFrom(o, [Begin("ups_body", "ups_top") EXCEPT !.args = a])

ChangeStatusTimeout(o) ==
  /\ Start(o)
  /\ \E a \in ChangeStatusArgs :
       UpsTimeoutFrom(o, [Begin("ups_body", "ups_top") EXCEPT !.args = a])

\* The first row of the in-progress sheet that names winnerId gives the
\* opponent (0: the winner is at no table).
findOpponentIdFromInProgress(tb, winnerId) ==
  LET rows == {i \in 1..Len(tb) : tb[i].p1 = winnerId \/ tb[i].p2 = winnerId}
      r == Min(rows)
  IN IF rows = {} THEN 0
     ELSE IF tb[r].p1 = winnerId THEN tb[r].p2 ELSE tb[r].p1

\* promptAndRecordResult: the winner must be found at a table by the unlocked
\* lookup, whose opponent is shown in the confirmation dialog; after the
\* confirmation recordResult(winnerId) calls updatePlayerState.
PromptAndRecordResult(o) ==
  /\ Start(o)
  /\ \E w \in 1..MaxPlayers :
       /\ \E i \in 1..Len(tables) : tables[i].p1 = w \/ tables[i].p2 = w
       /\ Set(o, [Begin("ups_body", "ups_top") EXCEPT
                    !.args = StateArgs(w, WAITING, WAITING, TRUE, TRUE),
                    !.lookup = findOpponentIdFromInProgress(tables, w)])
  /\ UNCHANGED <<players, tables, history, maxTablesProp, maintenance, lock, now>>
  /\ wr' = NoWrite
  /\ UNCHANGED <<pending, triggers>>

\* updatePlayerState called by recordResult or by endAllActiveMatches.
UpsTimeout(o) ==
  /\ op[o].pc = "ups_body"
  /\ UpsTimeoutFrom(o, op[o])
  /\ UNCHANGED started

UpsBody(o) ==
  /\ op[o].pc = "ups_body"
  /\ UpsBodyFrom(o, op[o])
  /\ UNCHANGED started

\* After the nested matchPlayers: the finally block and the success result.
UpsRelease(o) ==
  /\ op[o].pc = "ups_release"
  /\ lock' = Released(o, lock)
  /\ Set(o, Return([op[o] EXCEPT !.upsRes = "ok", !.plan = NoPlan]))
  /\ UNCHANGED <<players, tables, history, maxTablesProp, maintenance, now>>
  /\ UNCHANGED started
  /\ wr' = NoWrite
  /\ UNCHANGED <<pending, triggers>>

\* =================================================================
\* returnPlayerFromResting (player-domain.js)
\* =================================================================
\* The status check on the sheet as read without the lock; the execution
\* goes on (after the confirmation dialog) only for a Resting player.
ReturnCheck(o) ==
  /\ Start(o)
  /\ \E i \in 1..Len(players) :
       /\ players[i].status = RESTING
       /\ Set(o, [Begin("ret_write", "idle") EXCEPT !.tgt = RowOf(players, players[i].id)])
  /\ UNCHANGED <<players, tables, history, maxTablesProp, maintenance, lock, now>>
  /\ wr' = NoWrite
  /\ UNCHANGED <<pending, triggers>>

RetTimeout(o) ==
  /\ op[o].pc = "ret_write"
  /\ LockTimeout(o)
  /\ Set(o, Alert("contention", NoArgs))
  /\ UNCHANGED <<players, tables, history, maxTablesProp, maintenance, lock, now>>
  /\ UNCHANGED started
  /\ wr' = NoWrite
  /\ UNCHANGED <<pending, triggers>>

\* Under the lock the status cell of the remembered row is set to Waiting.
RetWrite(o) ==
  /\ op[o].pc = "ret_write"
  /\ CanAcquire(o)
  /\ players' = [players EXCEPT ![op[o].tgt].status = WAITING]
  /\ IF WaitingCount(players') >= 2
     THEN /\ lock' = o
          /\ Set(o, Begin("mp_check", "ret_release"))
     ELSE /\ lock' = NoLock
          /\ Set(o, IdleRec)
  /\ UNCHANGED <<tables, history, maxTablesProp, maintenance, now>>
  /\ UNCHANGED started
  /\ wr' = WriteBy(o, o)
  /\ UNCHANGED <<pending, triggers>>

RetRelease(o) ==
  /\ op[o].pc = "ret_release"
  /\ lock' = Released(o, lock)
  /\ Set(o, IdleRec)
  /\ UNCHANGED <<players, tables, history, maxTablesProp, maintenance, now>>
  /\ UNCHANGED started
  /\ wr' = NoWrite
  /\ UNCHANGED <<pending, triggers>>

\* =================================================================
\* endTournament / endAllActiveMatches (app.js)
\* =================================================================
\* acquireLock throws; the finally block still deletes MAINTENANCE_MODE.
EtTimeout(o) ==
  /\ Start(o)
  /\ LockTimeout(o)
  /\ maintenance' = FALSE
  /\ Set(o, Alert("contention", NoArgs))
  /\ UNCHANGED <<players, tables, history, maxTablesProp, lock, now>>
  /\ wr' = NoWrite
  /\ UNCHANGED <<pending, triggers>>

\* Rows of the in-progress sheet with both ids present.
ActiveRows(tb) ==
  LET idx == [i \in 1..Len(tb) |-> i]
      act == SelectSeq(idx, LAMBDA i : tb[i].p1 # 0 /\ tb[i].p2 # 0)
  IN [k \in 1..Len(act) |->
        [rowIndex |-> act[k], table |-> tb[act[k]].num,
         id1 |-> tb[act[k]].p1, id2 |-> tb[act[k]].p2]]

\* Lock taken, MAINTENANCE_MODE set, active matches counted.  With active
\* matches the operator is asked; yes leads into endAllActiveMatches.
EndTournament(o) ==
  /\ Start(o)
  /\ CanAcquire(o)
  /\ lock' = o
  /\ maintenance' = TRUE
  /\ \E confirm \in BOOLEAN :
       IF ActiveRows(tables) # <<>> /\ confirm
       THEN Set(o, Begin("eam_start", "et_finally"))
       ELSE Set(o, Begin("et_finally", "idle"))
  /\ UNCHANGED <<players, tables, history, maxTablesProp, now>>
  /\ wr' = NoWrite
  /\ UNCHANGED <<pending, triggers>>

\* endAllActiveMatches up to its first updatePlayerState call: the flag is
\* set if it is not, the active rows and the largest match id are read.
EamStart(o) ==
  /\ op[o].pc = "eam_start"
  /\ maintenance' = TRUE
  /\ LET active == ActiveRows(tables)
         ids == {history[i].matchId : i \in 1..Len(history)}
         maxNum == IF ids = {} THEN 0 ELSE Max(ids)
     IN IF active = <<>>
        THEN Set(o, Return(op[o]))
        ELSE Set(o, Call([op[o] EXCEPT
                            !.eam = [active |-> active, i |-> 1, maxNum |-> maxNum,
                                     owned |-> ~maintenance],
                            !.args = ForceArgs(active[1].id1)],
                         "ups_body", "eam_after1"))
  /\ UNCHANGED <<players, tables, history, maxTablesProp, lock, now>>
  /\ UNCHANGED started
  /\ wr' = NoWrite
  /\ UNCHANGED <<pending, triggers>>

\* After the loop: one history row per active row read at the start (winner
\* name "tournament end", no duration) is written below the last row, the
\* active rows are cleared in the in-progress sheet, and the flag is deleted
\* if this call had set it.
EamTail(o) ==
  /\ op[o].pc = "eam_tail"
  /\ LET e == op[o].eam
         rowsToAppend == [k \in 1..Len(e.active) |->
                            [matchId |-> e.maxNum + k, table |-> e.active[k].table,
                             id1 |-> e.active[k].id1, id2 |-> e.active[k].id2,
                             dur |-> FALSE]]
         cleared == {e.active[k].rowIndex : k \in 1..Len(e.active)}
     IN /\ history' = history \o rowsToAppend
        /\ tables' = [i \in 1..Len(tables) |->
                        IF i \in cleared THEN [num |-> tables[i].num, p1 |-> 0, p2 |-> 0]
                        ELSE tables[i]]
        /\ maintenance' = IF e.owned THEN FALSE ELSE maintenance
        /\ Set(o, Return([op[o] EXCEPT !.eam = NoEam]))
  /\ UNCHANGED <<players, maxTablesProp, lock, now>>
  /\ UNCHANGED started
  /\ wr' = WriteBy(o, lock)
  /\ UNCHANGED <<pending, triggers>>

\* The backups (copies of the sheets) and the finally block of endTournament.
EtFinally(o) ==
  /\ op[o].pc = "et_finally"
  /\ maintenance' = FALSE
  /\ lock' = Released(o, lock)
  /\ Set(o, IdleRec)
  /\ UNCHANGED <<players, tables, history, maxTablesProp, now>>
  /\ UNCHANGED started
  /\ wr' = NoWrite
  /\ UNCHANGED <<pending, triggers>>

\* =================================================================
\* configureMaxTables (app.js)
\* =================================================================
\* Variant of configureMaxTables without the getMaxUsedTableNumber check.
ConfigureCheckRangeOnly(o) ==
  /\ Start(o)
  /\ \E n \in (0..MaxTablesInput) \cup {MaxTablesLimit + 1} :
       IF n < 1 \/ n > MaxTablesLimit
       THEN Set(o, [Alert("rejected", NoArgs) EXCEPT !.cfg = n])
       ELSE Set(o, [Begin("cfg_set", "idle") EXCEPT !.cfg = n])
  /\ UNCHANGED <<players, tables, history, maxTablesProp, maintenance, lock, now>>
  /\ wr' = NoWrite
  /\ UNCHANGED <<pending, triggers>>

\* The number typed in, the range check and the getMaxUsedTableNumber check;
\* no lock is taken.  A rejected input ends in an error dialog.
ConfigureCheck(o) ==
  /\ Start(o)
  /\ \E n \in (0..MaxTablesInput) \cup {MaxTablesLimit + 1} :
       IF n < 1 \/ n > MaxTablesLimit
       THEN Set(o, [Alert("rejected", NoArgs) EXCEPT !.cfg = n])
       ELSE IF n < getMaxUsedTableNumber(tables)
       THEN Set(o, [Alert("rejected", NoArgs) EXCEPT !.cfg = n])
       ELSE Set(o, [Begin("cfg_set", "idle") EXCEPT !.cfg = n])
  /\ UNCHANGED <<players, tables, history, maxTablesProp, maintenance, lock, now>>
  /\ wr' = NoWrite
  /\ UNCHANGED <<pending, triggers>>

\* After the confirmation dialog: setMaxTables.
setMaxTables(o) ==
  /\ op[o].pc = "cfg_set"
  /\ maxTablesProp' = op[o].cfg
  /\ Set(o, IdleRec)
  /\ UNCHANGED <<players, tables, history, maintenance, lock, now>>
  /\ UNCHANGED started
  /\ wr' = WriteBy(o, lock)
  /\ UNCHANGED <<pending, triggers>>

\* =================================================================
\* correctMatchResult (match-domain.js)
\* =================================================================
\* findMatchById and the reading of the row, without the lock.
CorrectRead(o) ==
  /\ Start(o)
  /\ \A i \in 1..Len(players) : players[i].wins < MaxStat /\ players[i].losses < MaxStat
  /\ \E m \in {history[i].matchId : i \in 1..Len(history)} :
       LET row == Min({i \in 1..Len(history) : history[i].matchId = m})
       IN Set(o, [Begin("cmr_write", "idle") EXCEPT
                    !.cmr = [row |-> row, winner |-> history[row].id1,
                             loser |-> history[row].id2]])
  /\ UNCHANGED <<players, tables, history, maxTablesProp, maintenance, lock, now>>
  /\ wr' = NoWrite
  /\ UNCHANGED <<pending, triggers>>

CmrTimeout(o) ==
  /\ op[o].pc = "cmr_write"
  /\ LockTimeout(o)
  /\ Set(o, Alert("contention", NoArgs))
  /\ UNCHANGED <<players, tables, history, maxTablesProp, maintenance, lock, now>>
  /\ UNCHANGED started
  /\ wr' = NoWrite
  /\ UNCHANGED <<pending, triggers>>

\* Under the lock: the ids read before are written back swapped and the two
\* players' wins and losses are adjusted, each floored at 0.
CmrWrite(o) ==
  /\ op[o].pc = "cmr_write"
  /\ CanAcquire(o)
  /\ LET c == op[o].cmr
     IN /\ history' = [history EXCEPT ![c.row].id1 = c.loser, ![c.row].id2 = c.winner]
        /\ players' = [i \in 1..Len(players) |->
                         IF players[i].id = c.winner
                         THEN [players[i] EXCEPT !.wins = Max0(0, @ - 1), !.losses = @ + 1]
                         ELSE IF players[i].id = c.loser
                         THEN [players[i] EXCEPT !.wins = @ + 1, !.losses = Max0(0, @ - 1)]
                         ELSE players[i]]
  /\ lock' = NoLock
  /\ Set(o, IdleRec)
  /\ UNCHANGED <<tables, maxTablesProp, maintenance, now>>
  /\ UNCHANGED started
  /\ wr' = WriteBy(o, o)
  /\ UNCHANGED <<pending, triggers>>

\* =================================================================
\* deferMatchPlayers / runDeferredMatchPlayers (match-domain.js)
\* =================================================================
\* props.setProperty("PENDING_MATCH_PLAYERS", "1").
DeferSet(o) ==
  /\ Start(o)
  /\ pending' = TRUE
  /\ Set(o, [Begin("defer_read", "idle") EXCEPT !.run.at = started + 1])
  /\ UNCHANGED <<players, tables, history, maxTablesProp, maintenance, lock, now>>
  /\ UNCHANGED triggers
  /\ wr' = NoWrite

\* getProjectTriggers: with a runDeferredMatchPlayers trigger registered
\* nothing is created.
DeferRead(o) ==
  /\ op[o].pc = "defer_read"
  /\ IF triggers # {}
     THEN Set(o, IdleRec)
     ELSE Set(o, [op[o] EXCEPT !.pc = "defer_create"])
  /\ UNCHANGED <<players, tables, history, maxTablesProp, maintenance, lock, now>>
  /\ UNCHANGED <<started, pending, triggers>>
  /\ wr' = NoWrite

\* newTrigger("runDeferredMatchPlayers")...create().
DeferCreate(o) ==
  /\ op[o].pc = "defer_create"
  /\ triggers' = triggers \cup {op[o].run.at}
  /\ Set(o, IdleRec)
  /\ UNCHANGED <<players, tables, history, maxTablesProp, maintenance, lock, now>>
  /\ UNCHANGED <<started, pending>>
  /\ wr' = NoWrite

\* runDeferredMatchPlayers begins (fired by a trigger, or run by hand):
\* getProperty("PENDING_MATCH_PLAYERS").
RunRead(o) ==
  /\ Start(o)
  /\ Set(o, [Begin("run_delete", "idle") EXCEPT
               !.run = [pending |-> pending, seen |-> {}, calls |-> 0,
                        at |-> started + 1,
                        alone |-> \A q \in Operators \ {o} :
                                    op[q].pc \in {"idle", "alert", "mp_done", "run_done"}]])
  /\ UNCHANGED <<players, tables, history, maxTablesProp, maintenance, lock, now>>
  /\ UNCHANGED <<pending, triggers>>
  /\ wr' = NoWrite

\* Variant of the deleteProperty step that leaves the property alone.
RunDeleteNot(o) ==
  /\ op[o].pc = "run_delete"
  /\ Set(o, [op[o] EXCEPT !.pc = "run_triggers"])
  /\ UNCHANGED <<players, tables, history, maxTablesProp, maintenance, lock, now>>
  /\ UNCHANGED <<started, pending, triggers>>
  /\ wr' = NoWrite

\* props.deleteProperty("PENDING_MATCH_PLAYERS").
RunDelete(o) ==
  /\ op[o].pc = "run_delete"
  /\ pending' = FALSE
  /\ Set(o, [op[o] EXCEPT !.pc = "run_triggers"])
  /\ UNCHANGED <<players, tables, history, maxTablesProp, maintenance, lock, now>>
  /\ UNCHANGED <<started, triggers>>
  /\ wr' = NoWrite

\* getProjectTriggers in the cleanup.
RunTriggers(o) ==
  /\ op[o].pc = "run_triggers"
  /\ Set(o, [op[o] EXCEPT !.pc = "run_cleanup", !.run.seen = triggers])
  /\ UNCHANGED <<players, tables, history, maxTablesProp, maintenance, lock, now>>
  /\ UNCHANGED <<started, pending, triggers>>
  /\ wr' = NoWrite

\* The triggers read are deleted in order.  Deleting a trigger that another
\* execution has deleted meanwhile either throws, which ends the loop (the
\* error is caught), or does nothing.  Without a pending request the
\* function returns; otherwise it calls matchPlayers.
RunCleanup(o) ==
  /\ op[o].pc = "run_cleanup"
  /\ LET seen == op[o].run.seen
         gone == seen \ triggers
     IN \/ triggers' = triggers \ seen
        \/ /\ gone # {}
           /\ triggers' = triggers \ {t \in seen : t < Min(gone)}
  /\ IF op[o].run.pending
     THEN Set(o, Call([op[o] EXCEPT !.run.calls = @ + 1], "mp_check", "run_after"))
     ELSE Set(o, [IdleRec EXCEPT !.pc = "run_done", !.run = op[o].run])
  /\ UNCHANGED <<players, tables, history, maxTablesProp, maintenance, lock, now>>
  /\ UNCHANGED <<started, pending>>
  /\ wr' = NoWrite

\* matchPlayers has returned: the function ends.
RunReturn(o) ==
  /\ op[o].pc = "run_after"
  /\ Set(o, [IdleRec EXCEPT !.pc = "run_done", !.run = op[o].run,
                            !.mpRet = op[o].mpRet])
  /\ UNCHANGED <<players, tables, history, maxTablesProp, maintenance, lock, now>>
  /\ UNCHANGED <<started, pending, triggers>>
  /\ wr' = NoWrite

\* =================================================================
\* registerTestPlayers (test-utils.js)
\* =================================================================
\* Run from the script editor, without the lock: the player sheet is
\* cleared, the test players are appended Waiting with zero counters, and
\* with two or more of them matchPlayers is called.
registerTestPlayers(o) ==
  /\ Start(o)
  /\ \E numTestPlayers \in 1..MaxPlayers :
       /\ players' = [i \in 1..numTestPlayers |->
                        [id |-> i, wins |-> 0, losses |-> 0, played |-> 0,
                         status |-> WAITING, ts |-> now + 1]]
       /\ IF numTestPlayers >= 2
          THEN Set(o, Begin("mp_check", "idle"))
          ELSE Set(o, IdleRec)
  /\ now' = now + 1
  /\ UNCHANGED <<tables, history, maxTablesProp, maintenance, lock>>
  /\ wr' = WriteBy(o, lock)
  /\ UNCHANGED <<pending, triggers>>

\* =================================================================
\* Specifications
\* =================================================================
Next ==
  \/ \E o \in Operators : Dismiss(o)
  \/ \E o \in Operators : MatchPlayers(o)
  \/ \E o \in Operators : MpCheck(o)
  \/ \E o \in Operators : MpTimeout(o)
  \/ \E o \in Operators : MpPlan(o)
  \/ \E o \in Operators : MpWrite(o)
  \/ \E o \in Operators : RegTimeout(o)
  \/ \E o \in Operators : RegisterPlayer(o)
  \/ \E o \in Operators : RegRelease(o)
  \/ \E o \in Operators : ChangePlayerStatus(o)
  \/ \E o \in Operators : ChangeStatusTimeout(o)
  \/ \E o \in Operators : PromptAndRecordResult(o)
  \/ \E o \in Operators : UpsTimeout(o)
  \/ \E o \in Operators : UpsBody(o)
  \/ \E o \in Operators : UpsRelease(o)
  \/ \E o \in Operators : ReturnCheck(o)
  \/ \E o \in Operators : RetTimeout(o)
  \/ \E o \in Operators : RetWrite(o)
  \/ \E o \in Operators : RetRelease(o)
  \/ \E o \in Operators : EtTimeout(o)
  \/ \E o \in Operators : EndTournament(o)
  \/ \E o \in Operators : EamStart(o)
  \/ \E o \in Operators : EamTail(o)
  \/ \E o \in Operators : EtFinally(o)
  \/ \E o \in Operators : ConfigureCheck(o)
  \/ \E o \in Operators : setMaxTables(o)
  \/ \E o \in Operators : CorrectRead(o)
  \/ \E o \in Operators : CmrTimeout(o)
  \/ \E o \in Operators : CmrWrite(o)

Spec == Init /\ [][Next]_vars

\* One operator runs a tournament of test players on their own: the test
\* players are registered from the script editor, matching runs, results are
\* recorded, players rest or drop out, and the number of tables is set.
NextMatching ==
  \/ \E o \in {"opA"} : registerTestPlayers(o)
  \/ \E o \in {"opA"} : Dismiss(o)
  \/ \E o \in {"opA"} : MatchPlayers(o)
  \/ \E o \in {"opA"} : MpCheck(o)
  \/ \E o \in {"opA"} : MpPlan(o)
  \/ \E o \in {"opA"} : MpWrite(o)
  \/ \E o \in {"opA"} : ChangePlayerStatus(o)
  \/ \E o \in {"opA"} : PromptAndRecordResult(o)
  \/ \E o \in {"opA"} : UpsBody(o)
  \/ \E o \in {"opA"} : UpsRelease(o)
  \/ \E o \in {"opA"} : ConfigureCheck(o)
  \/ \E o \in {"opA"} : setMaxTables(o)

SpecMatching == Init /\ [][NextMatching]_vars

\* Deferred matching: operators register players, queue matching runs and
\* run the queued matching.
NextDeferred ==
  \/ \E o \in Operators : Dismiss(o)
  \/ \E o \in Operators : RegTimeout(o)
  \/ \E o \in Operators : RegisterPlayer(o)
  \/ \E o \in Operators : RegRelease(o)
  \/ \E o \in Operators : MpCheck(o)
  \/ \E o \in Operators : MpTimeout(o)
  \/ \E o \in Operators : MpPlan(o)
  \/ \E o \in Operators : MpWrite(o)
  \/ \E o \in Operators : DeferSet(o)
  \/ \E o \in Operators : DeferRead(o)
  \/ \E o \in Operators : DeferCreate(o)
  \/ \E o \in Operators : RunRead(o)
  \/ \E o \in Operators : RunDelete(o)
  \/ \E o \in Operators : RunTriggers(o)
  \/ \E o \in Operators : RunCleanup(o)
  \/ \E o \in Operators : RunReturn(o)

SpecDeferred == Init /\ [][NextDeferred]_vars

\* Every started execution is run on: the script runtime keeps executing it
\* and tryLock waits at most LOCK_TIMEOUT.  The steps that end a wait or
\* leave a function are weakly fair; and an execution that is under way
\* takes a step of its own again and again until it has ended, which is the
\* weak fairness of all its steps, an execution under way always having
\* one.  Choosing a menu item and closing an alert are the operators' and are
\* not required.
SpecFair ==
  /\ Spec
  /\ \A o \in Operators :
       /\ WF_vars(\/ MpCheck(o) \/ MpTimeout(o)
                  \/ RegRelease(o) \/ UpsTimeout(o) \/ UpsRelease(o)
                  \/ RetTimeout(o) \/ RetRelease(o)
                  \/ EtFinally(o) \/ setMaxTables(o) \/ CmrTimeout(o))
       /\ \/ []<>(op[o].pc \in {"idle", "alert", "mp_done"})
          \/ []<><<op'[o] # op[o]>>_vars

\* =================================================================
\* Properties
\* =================================================================
\* C1: whenever a matching run commits its pairs, no committed pair (p1, p2)
\* has a history row between p1 and p2 at the time of the commit.
NoRematchAtCommit ==
  [][\A o \in Operators :
       (op[o].pc = "mp_write" /\ op'[o] # op[o]) =>
         \A k \in 1..Len(op[o].plan.actualMatches) :
           LET m == op[o].plan.actualMatches[k]
           IN m[2] \notin OpponentsOf(buildOpponentsMap(history), m[1])]_vars

\* C2: in every reachable state no player id sits at more than one occupied
\* table.
NoPlayerAtTwoTables ==
  \A p \in 1..MaxPlayers : Cardinality(SeatsOf(tables, p)) <= 1

\* C3: in every reachable state the number of occupied tables is at most the
\* current maxTables.
OccupiedWithinMaxTables ==
  Cardinality(OccupiedRows(tables)) <= getMaxTables

\* C4: a player whose status is Dropped keeps that status in every later
\* state.
DroppedIsTerminal ==
  [][\A i \in 1..Len(players) :
       players[i].status = DROPPED => players'[i].status = DROPPED]_vars

\* C5: whenever no operation is in progress, every player has
\* matchesPlayed = wins + losses.
StatsBalancedAtRest ==
  (\A o \in Operators : op[o].pc \in {"idle", "alert", "mp_done"}) =>
    \A i \in 1..Len(players) :
      players[i].played = players[i].wins + players[i].losses

\* C6: an operation that has acquired the script lock and has ledger writes
\* still ahead of it (nested matchPlayers, the loop and the tail of
\* endAllActiveMatches) holds the lock.
LockHeldUntilLastWrite ==
  \A o \in Operators :
    LET r == op[o]
        nested == \E k \in 1..Len(r.stk) : r.stk[k] \notin {"idle", "mp_top", "ups_top"}
        midOperation ==
          \/ r.pc \in {"mp_write", "eam_start", "eam_tail"}
          \/ r.pc \in {"mp_check", "mp_plan"} /\ nested
          \/ r.pc = "ups_body" /\ nested
    IN midOperation => lock = o

\* C7: every write to a sheet or to the MAX_TABLES property is made by an
\* execution that holds the script lock at the time of the write.
EveryWriteUnderLock ==
  wr.by # "nobody" => wr.holder = wr.by

\* C8: if MAINTENANCE_MODE is set when matchPlayers is invoked, matchPlayers
\* returns 0 in that very step and leaves players, tables and history as
\* they were.
MaintenanceShortCircuit ==
  [][\A o \in Operators :
       LET invoked == \/ op[o].pc = "mp_check" /\ op'[o] # op[o]
                      \/ op[o].pc = "idle" /\ op'[o].pc \in {"mp_plan", "mp_done"}
       IN (maintenance /\ invoked) =>
            /\ ledgers' = ledgers
            /\ op'[o].pc # "mp_plan"
            /\ op'[o].mpRet = 0]_vars

\* C8 witness: updatePlayerState found two or more Waiting players, called
\* matchPlayers, and matchPlayers came back with 0 without touching the lock
\* its caller holds, the flag being set.
MaintenanceShortCircuitWitness ==
  \E o \in Operators :
    /\ op[o].pc = "ups_release"
    /\ op[o].mpRet = 0
    /\ lock = o
    /\ maintenance
    /\ WaitingCount(players) >= 2

\* C9: while an endTournament run is between setting MAINTENANCE_MODE and its
\* return, the flag is set and no matching run commits a pairing.
FrozenDuringEndTournament ==
  [][\A e \in Operators :
       LET inEndTournament ==
             \/ op[e].pc = "et_finally"
             \/ \E k \in 1..Len(op[e].stk) : op[e].stk[k] = "et_finally"
           committed == \E o \in Operators :
                          /\ op[o].pc = "mp_write"
                          /\ op'[o] # op[o]
                          /\ <<players, tables>>' # <<players, tables>>
       IN inEndTournament => (maintenance /\ ~committed)]_vars

\* C10: whenever updatePlayerState returns success=false for a target that
\* is in the player sheet, players, tables and history are as before the
\* call.
FailedUpdateWritesNothing ==
  [][\A o \in Operators :
       LET returnedFailure ==
             /\ op'[o] # op[o]
             /\ op'[o].upsRes = "fail"
             /\ \/ op[o].pc = "ups_body" /\ op'[o].pc # "mp_check"
                \/ op[o].pc = "idle" /\ op'[o].pc = "alert"
           target == IF op[o].pc = "ups_body" THEN op[o].args.target
                     ELSE op'[o].args.target
       IN (returnedFailure /\ RowOf(players, target) # 0) => ledgers' = ledgers]_vars

\* C10 witness: the data-consistency failure has been reported for a target
\* that is InProgress and sits at no table.
FailedUpdateWitness ==
  \E o \in Operators :
    /\ op[o].pc = "alert"
    /\ op[o].upsRes = "fail"
    /\ StatusOf(players, op[o].args.target) = IN_PROGRESS
    /\ SeatsOf(tables, op[o].args.target) = {}

\* All requests updatePlayerState can be given for target p.
RequestsFor(p) ==
  {StateArgs(p, st, opp, rec, win) :
     st \in {WAITING, IN_PROGRESS, RESTING, DROPPED},
     opp \in {WAITING, IN_PROGRESS, RESTING, DROPPED},
     rec \in BOOLEAN, win \in BOOLEAN}

\* C11: on the sheets of every reachable state, updatePlayerState for a
\* target that is not in the player sheet or is Dropped returns success=false
\* and leaves players, tables and history as they are, whatever newStatus,
\* opponentNewStatus, recordResult and isTargetWinner are.
RejectedTargetChangesNothing ==
  \A p \in 1..(Len(players) + 1) :
    (RowOf(players, p) = 0 \/ StatusOf(players, p) = DROPPED) =>
      \A a \in RequestsFor(p) :
        LET u == updatePlayerState(a, players, tables, history, now + 1)
        IN /\ ~u.success
           /\ u.players = players
           /\ u.tables = tables
           /\ u.history = history

\* C11 witness: an operator has asked to rest a player who is Dropped, and
\* was refused.
RejectedTargetWitness ==
  \E o \in Operators :
    /\ op[o].pc = "alert"
    /\ op[o].upsRes = "fail"
    /\ StatusOf(players, op[o].args.target) = DROPPED
    /\ op[o].args.newStatus = RESTING

\* C12: on the sheets of every reachable state, a successful updatePlayerState
\* with recordResult set on an InProgress target appends exactly one history
\* row whose winner is the target if isTargetWinner and the table opponent
\* otherwise, the loser being the other one; the winner's wins and
\* matchesPlayed and the loser's losses and matchesPlayed go up by one and
\* no other counter changes.
ResultRecordedOnce ==
  \A p \in 1..Len(players) :
    StatusOf(players, p) = IN_PROGRESS =>
      \A a \in {r \in RequestsFor(p) : r.recordResult} :
        LET u == updatePlayerState(a, players, tables, history, now + 1)
            seat == tables[Min(SeatsOf(tables, p))]
            opponent == IF seat.p1 = p THEN seat.p2 ELSE seat.p1
            winner == IF a.isTargetWinner THEN p ELSE opponent
            loser == IF a.isTargetWinner THEN opponent ELSE p
            rec == u.history[Len(u.history)]
        IN u.success =>
             /\ Len(u.history) = Len(history) + 1
             /\ SubSeq(u.history, 1, Len(history)) = history
             /\ rec.id1 = winner /\ rec.id2 = loser
             /\ Len(u.players) = Len(players)
             /\ \A i \in 1..Len(players) :
                  LET before == players[i]
                      after == u.players[i]
                      won == IF before.id = winner THEN 1 ELSE 0
                      lost == IF before.id = loser THEN 1 ELSE 0
                  IN /\ after.id = before.id
                     /\ after.wins = before.wins + won
                     /\ after.losses = before.losses + lost
                     /\ after.played = before.played + won + lost

\* C12 witness: a result has been recorded: the first history row has a
\* duration, its winner has one win in one match, its loser one loss in one
\* match.
ResultRecordedWitness ==
  /\ Len(history) = 1
  /\ history[1].dur
  /\ LET w == players[RowOf(players, history[1].id1)]
         l == players[RowOf(players, history[1].id2)]
     IN /\ w.wins = 1 /\ w.losses = 0 /\ w.played = 1
        /\ l.wins = 0 /\ l.losses = 1 /\ l.played = 1

RematchVisibleOnReturn ==
  [][\A o \in Operators :
       LET wrote == /\ op'[o] # op[o]
                    /\ op[o].pc \in {"idle", "ups_body"}
                    /\ wr' = WriteBy(o, o)
           returns == /\ op'[o] # op[o]
                      /\ op[o].pc \in {"ups_release", "reg_release"}
           m == op[o].plan.actualMatches
           seated(a, b) == \E i \in OccupiedRows(tables) :
                             {tables[i].p1, tables[i].p2} = {a, b}
       IN /\ (wrote /\ WaitingCount(players') >= 2) => op'[o].pc = "mp_check"
          /\ (returns /\ op[o].mpRet > 0) =>
               \A k \in 1..op[o].mpRet :
                 /\ StatusOf(players, m[k][1]) = IN_PROGRESS
                 /\ StatusOf(players, m[k][2]) = IN_PROGRESS
                 /\ seated(m[k][1], m[k][2])]_vars

\* C15: the writing step of correctMatchResult swaps the winner and loser ids
\* of the record as it stands, takes one win from the record's winner and
\* gives them one loss, gives the record's loser one win and takes one loss
\* from them (each floored at 0), and changes nothing else: matchesPlayed,
\* statuses, tables and the other records stay as they were.
CorrectionSwapsAndCompensates ==
  [][\A o \in Operators :
       (op[o].pc = "cmr_write" /\ op'[o].pc = "idle" /\ wr' = WriteBy(o, o)) =>
         LET row == op[o].cmr.row
             w == history[row].id1
             l == history[row].id2
         IN /\ history' = [history EXCEPT ![row].id1 = l, ![row].id2 = w]
            /\ players' = [i \in 1..Len(players) |->
                             IF players[i].id = w
                             THEN [players[i] EXCEPT !.wins = Max0(0, @ - 1), !.losses = @ + 1]
                             ELSE IF players[i].id = l
                             THEN [players[i] EXCEPT !.wins = @ + 1, !.losses = Max0(0, @ - 1)]
                             ELSE players[i]]
            /\ tables' = tables]_vars

\* C16: the writing step of correctMatchResult leaves wins + losses, summed
\* over the two players of the corrected record, as it was.
CorrectionConservesTotal ==
  [][\A o \in Operators :
       (op[o].pc = "cmr_write" /\ op'[o].pc = "idle" /\ wr' = WriteBy(o, o)) =>
         LET row == op[o].cmr.row
             w == history[row].id1
             l == history[row].id2
             total(ps) == ps[RowOf(ps, w)].wins + ps[RowOf(ps, w)].losses
                          + ps[RowOf(ps, l)].wins + ps[RowOf(ps, l)].losses
         IN total(players') = total(players)]_vars

\* C17: a step in which acquireLock times out writes nothing, leaves the
\* execution with no acquisition ahead of it, and hands back a result that
\* names the contention: updatePlayerState's result is the contention
\* failure, an operation of the menu ends in the contention alert, and
\* matchPlayers does not return 0, the value of a run that paired nobody.
TimeoutFailsLoudly ==
  [][\A o \in Operators :
       LET attempt == \/ op[o].pc \in {"mp_plan", "ups_body", "ret_write", "cmr_write"}
                      \/ /\ op[o].pc = "idle"
                         /\ op'[o].pc = "alert"
                         /\ op'[o].upsRes = "contention"
           timeout == LockTimeout(o) /\ op'[o] # op[o] /\ attempt
       IN timeout =>
            /\ ledgers' = ledgers /\ maxTablesProp' = maxTablesProp
            /\ op'[o].pc \notin {"mp_check", "mp_plan", "ups_body", "ret_write", "cmr_write"}
            /\ IF op[o].pc = "mp_plan"
               THEN op'[o].mpRet # 0
               ELSE op'[o].upsRes = "contention"]_vars

\* C18: no deadlock.  Whenever no execution is under way the script lock is
\* free, and every execution that has started comes to its end (finished,
\* or failed and showing its alert), whatever the other operator does.
NoDeadlock ==
  /\ []((\A o \in Operators : op[o].pc \in {"idle", "alert", "mp_done"}) => lock = NoLock)
  /\ \A o \in Operators :
       (op[o].pc \notin {"idle", "alert", "mp_done"})
         ~> (op[o].pc \in {"idle", "alert", "mp_done"})

\* Both executions have ended, one of them on a lock timeout, after a
\* matching run has seated a pair.
NoDeadlockWitness ==
  /\ \A o \in Operators : op[o].pc \in {"idle", "alert", "mp_done"}
  /\ \E o \in Operators : op[o].pc = "alert" /\ op[o].upsRes = "contention"
  /\ OccupiedRows(tables) # {}
  /\ lock = NoLock

\* C20: configureMaxTables rejects a number outside [1, 200] or below
\* getMaxUsedTableNumber() and then leaves MAX_TABLES as it is; every other
\* number goes on to the confirmation, after which MAX_TABLES is exactly that
\* number; and nothing else changes MAX_TABLES.
ConfigureRejectsOrSets ==
  [][\A o \in Operators :
       LET n == op'[o].cfg
           asked == /\ op[o].pc = "idle"
                    /\ \/ op'[o].pc = "cfg_set"
                       \/ op'[o].pc = "alert" /\ op'[o].upsRes = "rejected"
           valid == /\ n >= 1 /\ n <= 200
                    /\ n >= getMaxUsedTableNumber(tables)
           sets == op[o].pc = "cfg_set" /\ op'[o] # op[o]
       IN /\ asked => /\ maxTablesProp' = maxTablesProp
                      /\ op'[o].pc = (IF valid THEN "cfg_set" ELSE "alert")
          /\ sets => maxTablesProp' = op[o].cfg
          /\ maxTablesProp' # maxTablesProp =>
               \E q \in Operators : op[q].pc = "cfg_set" /\ op'[q] # op[q]]_vars

\* An operator asked for 1 table while table 2 was in use and was refused:
\* MAX_TABLES is still unset.
ConfigureRejectedWitness ==
  \E o \in Operators :
    /\ op[o].pc = "alert" /\ op[o].upsRes = "rejected"
    /\ op[o].cfg = 1
    /\ getMaxUsedTableNumber(tables) = 2
    /\ maxTablesProp = 0

\* C19: a runDeferredMatchPlayers execution that no other execution overlaps
\* calls matchPlayers exactly once when the pending flag was set (by one or
\* several deferMatchPlayers calls since the last run) and not at all when
\* it was not, and in both cases leaves the flag cleared and no
\* runDeferredMatchPlayers trigger registered.
DeferredRunsOnce ==
  \A o \in Operators :
    (/\ op[o].pc = "run_done"
     /\ op[o].run.alone
     /\ started = op[o].run.at
     /\ \A q \in Operators \ {o} : op[q].pc \in {"idle", "alert", "mp_done", "run_done"}) =>
      /\ op[o].run.calls = (IF op[o].run.pending THEN 1 ELSE 0)
      /\ ~pending
      /\ triggers = {}

\* One player registered and two deferMatchPlayers calls, then one run: it
\* found the flag set and one trigger, called matchPlayers once and cleaned up.
DeferredRunWitness ==
  \E o \in Operators :
    /\ op[o].pc = "run_done"
    /\ op[o].run.alone /\ op[o].run.pending
    /\ op[o].run.at = 4 /\ started = 4
    /\ Len(players) = 1
    /\ Cardinality(op[o].run.seen) = 1
    /\ op[o].run.calls = 1 /\ op[o].mpRet = 0
    /\ ~pending /\ triggers = {}

NoEligiblePairNoMatch ==
  [][\A o \in Operators :
       LET waiting == {players[i].id : i \in {j \in 1..Len(players) : players[j].status = WAITING}}
           met(a, b) == \E i \in 1..Len(history) : {history[i].id1, history[i].id2} = {a, b}
           pre == \A a, b \in waiting : a # b => met(a, b)
       IN (pre /\ op[o].pc = "mp_plan" /\ op'[o] # op[o] /\ CanAcquire(o)) =>
            /\ op'[o].pc # "mp_write"
            /\ op'[o].pc # "idle" => op'[o].mpRet = 0
            /\ players' = players
            /\ tables' = tables]_vars

\* Two players have met once; both are Waiting again and the run that
\* followed the result has seated nobody.
NoEligiblePairWitness ==
  /\ Len(players) = 2
  /\ \A i \in 1..2 : players[i].status = WAITING /\ players[i].played = 1
  /\ Len(history) = 1
  /\ {history[1].id1, history[1].id2} = {players[1].id, players[2].id}
  /\ OccupiedRows(tables) = {}
  /\ \A o \in Operators : op[o].pc = "idle"

RunTouchesOnlyCommitted ==
  [][\A o \in Operators :
       LET planned == op'[o].plan.actualMatches
           committed == op[o].plan.actualMatches
           ids == UNION {{committed[j][1], committed[j][2]} : j \in 1..Len(committed)}
           seatedNow == {p \in ids : \E i \in OccupiedRows(tables') :
                           /\ p \in {tables'[i].p1, tables'[i].p2}
                           /\ tables'[i] # (IF i <= Len(tables) THEN tables[i]
                                            ELSE [num |-> 0, p1 |-> 0, p2 |-> 0])}
       IN /\ (op[o].pc = "mp_plan" /\ op'[o].pc = "mp_write") =>
               /\ \A j \in 1..Len(planned) :
                    /\ planned[j][1] # planned[j][2]
                    /\ StatusOf(players, planned[j][1]) = WAITING
                    /\ StatusOf(players, planned[j][2]) = WAITING
               /\ \A i, j \in 1..Len(planned) :
                    i # j => {planned[i][1], planned[i][2]}
                               \cap {planned[j][1], planned[j][2]} = {}
          /\ (op[o].pc = "mp_write" /\ op'[o] # op[o]) =>
               /\ Len(players') = Len(players)
               /\ \A i \in 1..Len(players) :
                    /\ players'[i] = [players[i] EXCEPT !.status = players'[i].status]
                    /\ players'[i].status # players[i].status =>
                         /\ players'[i].status = IN_PROGRESS
                         /\ players[i].id \in seatedNow
                    /\ players[i].id \in ids => players'[i].status = IN_PROGRESS]_vars

\* C25: endAllActiveMatches, called by endTournament with matches in
\* progress, changes no counter and writes no history row at any of its
\* steps, and when it has finished the players of every match it found are
\* Waiting and the rows of those matches are vacated.
ForcedEndLeavesNoRecord ==
  [][\A o \in Operators :
       /\ (op[o].eam # NoEam /\ op'[o] # op[o]) =>
            /\ history' = history
            /\ Len(players') = Len(players)
            /\ \A i \in 1..Len(players) :
                 /\ players'[i].wins = players[i].wins
                 /\ players'[i].losses = players[i].losses
                 /\ players'[i].played = players[i].played
       /\ (op[o].pc = "eam_tail" /\ op'[o] # op[o]) =>
            \A k \in 1..Len(op[o].eam.active) :
              LET a == op[o].eam.active[k]
              IN /\ StatusOf(players', a.id1) = WAITING
                 /\ StatusOf(players', a.id2) = WAITING
                 /\ tables'[a.rowIndex].p1 = 0
                 /\ tables'[a.rowIndex].p2 = 0]_vars

\* C26: in every reachable state the past-opponents map built from the
\* history is symmetric (a met b exactly when b met a) and irreflexive (no
\* player met themselves), and no history row names one player twice.
OpponentsSymmetricIrreflexive ==
  LET m == buildOpponentsMap(history)
  IN /\ \A a \in DOMAIN m :
          /\ a \notin m[a]
          /\ \A b \in m[a] : b \in DOMAIN m /\ a \in m[b]
     /\ \A a, b \in 1..MaxPlayers :
          b \in OpponentsOf(m, a) <=> a \in OpponentsOf(m, b)
     /\ \A i \in 1..Len(history) : history[i].id1 # history[i].id2

\* A player has met two different opponents.
OpponentsWitness ==
  /\ Len(history) >= 2
  /\ \E a \in DOMAIN buildOpponentsMap(history) :
       Cardinality(buildOpponentsMap(history)[a]) >= 2

GreedyPairing ==
  [][\A o \in Operators :
       LET L == getAndSortWaitingPlayers(players)
           opp == buildOpponentsMap(history)
           r == findMatchPairs(L, opp)
           M == r.matches
           S == r.skippedPlayers
           pos(p) == CHOOSE i \in 1..Len(L) : L[i] = p
           earlier(j) == UNION {{M[i][1], M[i][2]} : i \in 1..(j - 1)}
           before(c) == UNION {{M[i][1], M[i][2]} :
                                 i \in {k \in 1..Len(M) : pos(M[k][1]) < c}}
           aside == {S[i] : i \in 1..Len(S)}
           planned == op[o].plan.actualMatches
           plannedIds == UNION {{planned[j][1], planned[j][2]} : j \in 1..Len(planned)}
       IN /\ (op[o].pc = "mp_plan" /\ op'[o] # op[o]) =>
               /\ Len(L) = 2 * Len(M) + Len(S)
               /\ earlier(Len(M) + 1) \cup aside = {L[i] : i \in 1..Len(L)}
               /\ \A j \in 1..Len(M) :
                    /\ pos(M[j][1]) < pos(M[j][2])
                    /\ M[j][2] \notin OpponentsOf(opp, M[j][1])
                    /\ \A i \in 1..(j - 1) : pos(M[i][1]) < pos(M[j][1])
                    /\ \A c \in 1..(pos(M[j][1]) - 1) :
                         L[c] \in earlier(j) \cup aside
                    /\ \A c \in (pos(M[j][1]) + 1)..(pos(M[j][2]) - 1) :
                         L[c] \in earlier(j) \cup OpponentsOf(opp, M[j][1])
               /\ \A s \in aside :
                    \A d \in (pos(s) + 1)..Len(L) :
                      L[d] \in before(pos(s)) \cup OpponentsOf(opp, s)
               /\ op'[o].pc = "mp_write" =>
                    op'[o].plan.actualMatches
                      = SubSeq(M, 1, Len(op'[o].plan.actualMatches))
          /\ (op[o].pc = "mp_write" /\ op'[o] # op[o]) =>
               \A i \in 1..Len(players) :
                 players[i].id \notin plannedIds =>
                   players'[i].status = players[i].status]_vars

\* Player 1 has beaten 2 and then 3: in the next run 1 was set aside and is
\* still Waiting, and 2 was paired with 3.
GreedyPairingWitness ==
  /\ Len(players) = 3
  /\ Len(history) = 2
  /\ \A i \in 1..2 : history[i].id1 = 1
  /\ players[1].status = WAITING
  /\ \E i \in OccupiedRows(tables) : {tables[i].p1, tables[i].p2} = {2, 3}

\* C29: the pairs a run seats get their tables in formation order: the last
\* table p1 won at if it is free and within [1, maxTables], else the last
\* table p2 won at if it is free, else the free table with the lowest
\* number, else the lowest number up to maxTables that no row carries; never
\* an occupied table and never a table given to an earlier pair of the run.
TableChoiceOrder ==
  [][\A o \in Operators :
       LET planned == op[o].plan.actualMatches
           newRows(j) == {i \in 1..Len(tables') :
                            /\ tables'[i].p1 = planned[j][1]
                            /\ tables'[i].p2 = planned[j][2]
                            /\ (i > Len(tables) \/ tables[i].p1 = 0)}
           T(j) == tables'[CHOOSE i \in newRows(j) : TRUE].num
           freeNums == {tables[i].num :
                          i \in {k \in 1..Len(tables) : tables[k].num # 0 /\ tables[k].p1 = 0}}
           occupiedNums == {tables[i].num : i \in OccupiedRows(tables)}
           allNums == {tables[i].num : i \in 1..Len(tables)} \ {0}
           lastOf(p) == LET rows == {i \in 1..Len(history) :
                                       history[i].id1 = p /\ history[i].dur}
                        IN IF rows = {} THEN 0 ELSE history[Max(rows)].table
           given(j) == {T(i) : i \in 1..(j - 1)}
           avail(j) == freeNums \ given(j)
           unused(j) == (1..getMaxTables) \ (allNums \cup given(j))
           expected(j) ==
             IF lastOf(planned[j][1]) \in avail(j) \cap (1..getMaxTables)
             THEN lastOf(planned[j][1])
             ELSE IF lastOf(planned[j][2]) \in avail(j) \cap (1..getMaxTables)
             THEN lastOf(planned[j][2])
             ELSE IF avail(j) # {} THEN Min(avail(j))
             ELSE IF unused(j) # {} THEN Min(unused(j))
             ELSE 0
       IN (op[o].pc = "mp_write" /\ op'[o] # op[o]) =>
            \A j \in 1..Len(planned) :
              newRows(j) # {} =>
                /\ Cardinality(newRows(j)) = 1
                /\ T(j) = expected(j)
                /\ T(j) \notin occupiedNums
                /\ T(j) \notin given(j)]_vars

\* C30: in every reachable state the table numbers of the in-progress sheet
\* are pairwise distinct and each lies in [1, maxTables]; and a step of
\* updatePlayerState that vacates a row clears its players only: every row
\* keeps its table number.
TableNumbersDistinctInRange ==
  [][LET Valid(tb, prop) ==
           LET maxTables == IF prop # 0 THEN prop ELSE DefaultMaxTables
               numbered == {i \in 1..Len(tb) : tb[i].num # 0}
           IN /\ \A i, j \in numbered : i # j => tb[i].num # tb[j].num
              /\ \A i \in numbered : tb[i].num >= 1 /\ tb[i].num <= maxTables
     IN /\ Valid(tables, maxTablesProp)
        /\ Valid(tables', maxTablesProp')
        /\ \A o \in Operators :
             (op[o].pc = "ups_body" /\ op'[o] # op[o]) =>
               /\ Len(tables') = Len(tables)
               /\ \A i \in 1..Len(tables) : tables'[i].num = tables[i].num]_vars

\* C31: in every reachable state the match ids of the history rows are
\* pairwise distinct, and a row below another carries the larger id.
MatchIdsUniqueMonotonic ==
  \A i, j \in 1..Len(history) :
    i < j => history[i].matchId < history[j].matchId

\* C32: whenever a player row is appended (registerPlayer, under any
\* interleaving with the other operator), the new id is one more than the
\* largest id in the sheet, hence different from every existing id, the row
\* is Waiting with wins, losses and matches played all 0, and the ids of
\* the sheet stay pairwise distinct.
RegisteredIdIsFresh ==
  [][Len(players') > Len(players) =>
       LET n == Len(players')
           ids == {players[i].id : i \in 1..Len(players)}
       IN /\ n = Len(players) + 1
          /\ \A i \in 1..Len(players) : players'[i] = players[i]
          /\ players'[n].id \notin ids
          /\ players'[n].id = (IF ids = {} THEN 0 ELSE Max(ids)) + 1
          /\ players'[n].status = WAITING
          /\ players'[n].wins = 0 /\ players'[n].losses = 0 /\ players'[n].played = 0
          /\ \A i, j \in 1..n : i # j => players'[i].id # players'[j].id]_vars

\* An operator's registerPlayer has seated players 1 and 2 and not yet
\* returned, and player 3 has been registered meanwhile.
RegisteredIdWitness ==
  /\ Len(players) = 3
  /\ history = <<>>
  /\ players[1].status = IN_PROGRESS /\ players[2].status = IN_PROGRESS
  /\ players[3].status = WAITING
  /\ \E o \in Operators : op[o].pc = "reg_release"

\* C33: whenever no operation is in progress, a player is InProgress
\* exactly when it sits in exactly one occupied row, and every occupied row
\* holds two different players that are both InProgress.
SeatedIffInProgressAtRest ==
  (\A o \in Operators : op[o].pc = "idle") =>
    /\ \A i \in 1..Len(players) :
         players[i].status = IN_PROGRESS
           <=> Cardinality(SeatsOf(tables, players[i].id)) = 1
    /\ \A r \in OccupiedRows(tables) :
         /\ tables[r].p1 # tables[r].p2
         /\ StatusOf(players, tables[r].p1) = IN_PROGRESS
         /\ StatusOf(players, tables[r].p2) = IN_PROGRESS

\* C34: the locked write of returnPlayerFromResting changes a status to
\* Waiting only for a player that is Resting at that moment; it never turns
\* an InProgress or Dropped player into a Waiting one.
ReturnOnlyFromResting ==
  [][\A o \in Operators :
       (op[o].pc = "ret_write" /\ op'[o] # op[o]) =>
         \A i \in 1..Len(players) :
           players'[i].status # players[i].status =>
             /\ players[i].status = RESTING
             /\ players'[i].status = WAITING]_vars

\* C35: if every player's wins is the number of history rows that name the
\* player as winner (ID1) and the losses the number that name it as loser
\* (ID2), the same is true after the write of a correctMatchResult, in any
\* interleaving of corrections.
CorrectionKeepsCountersTrue ==
  [][\A o \in Operators :
       LET Agrees(ps, h) ==
             \A i \in 1..Len(ps) :
               /\ ps[i].wins = Cardinality({r \in 1..Len(h) : h[r].id1 = ps[i].id})
               /\ ps[i].losses = Cardinality({r \in 1..Len(h) : h[r].id2 = ps[i].id})
       IN (op[o].pc = "cmr_write" /\ op'[o] # op[o] /\ op'[o].pc # "alert"
             /\ Agrees(players, history)) =>
            Agrees(players', history')]_vars

\* C36: a result reported through promptAndRecordResult is recorded only
\* against the opponent its unlocked lookup found: the step of
\* updatePlayerState that follows either appends one row of the winner over
\* that opponent, or appends nothing and changes no counter.
ResultOnlyAgainstLookedUp ==
  [][\A o \in Operators :
       (op[o].pc = "ups_body" /\ op[o].args.recordResult /\ op'[o] # op[o]) =>
         \/ /\ history' = history
            /\ Len(players') = Len(players)
            /\ \A i \in 1..Len(players) :
                 /\ players'[i].wins = players[i].wins
                 /\ players'[i].losses = players[i].losses
                 /\ players'[i].played = players[i].played
         \/ /\ Len(history') = Len(history) + 1
            /\ history'[Len(history')].id1 = op[o].args.target
            /\ history'[Len(history')].id2 = op[o].lookup]_vars

\* C37: the pairing of a run is a maximal matching: any two players of the
\* sorted waiting list that findMatchPairs leaves unpaired (set aside or
\* left over) are past opponents of each other.
PairingIsMaximal ==
  [][\A o \in Operators :
       LET L == getAndSortWaitingPlayers(players)
           opp == buildOpponentsMap(history)
           r == findMatchPairs(L, opp)
           paired == UNION {{r.matches[j][1], r.matches[j][2]} : j \in 1..Len(r.matches)}
           unpaired == {L[i] : i \in 1..Len(L)} \ paired
       IN (op[o].pc = "mp_plan" /\ op'[o] # op[o]) =>
            /\ unpaired = {r.skippedPlayers[i] : i \in 1..Len(r.skippedPlayers)}
            /\ \A a, b \in unpaired :
                 a # b => \E i \in 1..Len(history) :
                            {history[i].id1, history[i].id2} = {a, b}]_vars

\* A result was recorded and the run that followed it has returned 0: the
\* Waiting players it left unpaired have met.
PairingIsMaximalWitness ==
  /\ Len(history) >= 1
  /\ WaitingCount(players) >= 2
  /\ \E o \in Operators : op[o].pc = "ups_release" /\ op[o].mpRet = 0

\* C38: the history holds at most one record for each unordered pair of
\* players.
OneRecordPerPair ==
  \A i, j \in 1..Len(history) :
    {history[i].id1, history[i].id2} = {history[j].id1, history[j].id2} => i = j

\* C39: on the sheets of every reachable state, updatePlayerState with
\* recordResult set for a target whose status is Waiting or Resting returns
\* success=false, appends no history row and leaves every player's counters
\* and status, and the tables, as they are.
UnseatedResultChangesNothing ==
  \A p \in 1..Len(players) :
    StatusOf(players, p) \in {WAITING, RESTING} =>
      \A a \in {r \in RequestsFor(p) : r.recordResult} :
        LET u == updatePlayerState(a, players, tables, history, now + 1)
        IN /\ ~u.success
           /\ u.history = history
           /\ u.players = players
           /\ u.tables = tables

\* C39 witness: an operator reported a winner who had left the table by the
\* time updatePlayerState ran, and was refused.
UnseatedResultWitness ==
  \E o \in Operators :
    /\ op[o].pc = "alert"
    /\ op[o].upsRes = "fail"
    /\ op[o].args.recordResult
    /\ StatusOf(players, op[o].args.target) \in {WAITING, RESTING}
    /\ SeatsOf(tables, op[o].args.target) = {}

\* C40: whenever the pending flag is set and no execution is under way (no
\* runDeferredMatchPlayers, and no deferMatchPlayers between its setProperty
\* and its trigger creation), a runDeferredMatchPlayers trigger is
\* registered.
PendingHasTrigger ==
  (/\ pending
   /\ \A o \in Operators : op[o].pc \in {"idle", "alert", "mp_done", "run_done"}) =>
    triggers # {}
====
